---- MODULE Spec2Model ----
(***************************************************************************)
(* Schema composition and monolith proxying of the GraphQL gateway.        *)
(*                                                                         *)
(*   src/src/index.ts                                  main() and the      *)
(*       three fragment collectors it awaits in turn                       *)
(*   src/src/framework/schema/monolith-proxy/index.ts  the monolith proxy  *)
(*       builder createMonolithProxySchema() and prepareForServer()        *)
(*                                                                         *)
(* A schema is a function from (typeName, fieldName) keys to the field     *)
(* definition that a fragment contributes: its tier, the name argument of  *)
(* its @function directive (a sequence of tokens, <<>> when it has none)   *)
(* and the resolver bound to it.                                           *)
(***************************************************************************)
EXTENDS Integers, Sequences, FiniteSets, TLC

\* Largest number of remote I/O packages one discovery returns.
MaxPkgs == 2

\* ------------------------------------------------------------------------
\* Value universes the inputs are drawn from

NoURL == ""
URLs == {"http://monolith/graphql"}
Causes == {"ECONNREFUSED", "malformed introspection response"}

PkgNames == {"catalog", "pkgB", "cart"}
FnNames == {"getPrice", "greet"}
Separator == "/"

IgnoreMeKey == <<"Query", "ignoreMe">>
BaseKeys == {<<"Query", "hello">>, <<"Query", "greet">>}
DSNames == {"db"}

EmptySchema == [k \in {} |-> [tier |-> "LOCAL", fn |-> <<>>, resolver |-> "local"]]
EmptyDataSources == [n \in {} |-> "local"]

\* ------------------------------------------------------------------------
\* State

VARIABLES
    entry,              \* which exported entry point this run executes
    enableIO,           \* readVar('ENABLE_IO_FUNCTIONS')
    legacyURL,          \* readVar('LEGACY_GRAPHQL_URL'), NoURL when unset
    pc,                 \* position of main()
    localExtensions,    \* <<>> or <<[executableSchema, dataSources]>>
    schemas,            \* main's schemas array, in push order
    ioSchemaDefs,       \* collectRemoteExtensions: the descriptors, mutated in place
    rawDefs,            \* the descriptors as getAllRemoteGQLSchemas returned them
    idx,                \* forEach position in ioSchemaDefs
    rewrites,           \* number of prepend calls made on each descriptor
    ioSchema,           \* <<>> or <<the remote executable schema>>
    visitLog,           \* one entry per FunctionDirectiveVisitor.visitSchemaDirectives call
    monolithRaw,        \* <<>> or <<what introspectSchema returned to main>>
    server,             \* <<>> or <<the ApolloServer configuration>>
    err,                \* the step whose rejection main() is propagating
    exitCode,           \* -1 while the process runs, else the process.exit status
    introspections,     \* introspectSchema calls made by main()
    discoveries,        \* getAllRemoteGQLSchemas calls made by main()
    proxyPc,            \* position of createMonolithProxySchema()
    monolithURL,        \* config.get('MONOLITH_GRAPHQL_URL')
    introspected,       \* <<>> or <<what introspectSchema returned to the builder>>
    cause,              \* the error introspectSchema rejected with, "none" otherwise
    proxyErr,           \* the error createMonolithProxySchema throws
    proxyResult,        \* <<>> or <<[schema, executor]>>
    proxyIntrospections,\* introspectSchema calls made by the builder
    proxyChecks,        \* the assertions evaluated, in order
    logs,               \* logger calls of the builder, in order
    prepPc,             \* position of prepareForServer()
    frameworkBuilds,    \* buildFrameworkSchema calls made
    gateway,            \* the schema instance held in `gateway`, 0 before
    prepResult          \* <<>> or <<[schema, contextSchema]>>

mainVars == <<pc, localExtensions, schemas, ioSchemaDefs, rawDefs, idx, rewrites,
              ioSchema, visitLog, monolithRaw, server, err, exitCode,
              introspections, discoveries>>
proxyVars == <<proxyPc, introspected, cause, proxyErr, proxyResult,
               proxyIntrospections, proxyChecks, logs>>
prepVars == <<prepPc, frameworkBuilds, gateway, prepResult>>
envVars == <<entry, enableIO, legacyURL, monolithURL>>
vars == <<envVars, mainVars, proxyVars, prepVars>>

\* ------------------------------------------------------------------------
\* Inputs the external collaborators can hand to the program

\* mergePackageConfigs(await getAllPackages(root)): the merged local config
LocalConfigs ==
    {[typeDefs |-> ks, dataSources |-> [n \in ds |-> "local"]] :
        ks \in SUBSET BaseKeys, ds \in SUBSET DSNames}

\* One descriptor of getAllRemoteGQLSchemas: a package and its schema
\* definition, here one field carrying @function(name: ...)
Descriptors ==
    {[pkg |-> p, schemaDef |-> [key |-> k, name |-> <<f>>]] :
        p \in PkgNames, k \in BaseKeys, f \in FnNames}

\* What getAllRemoteGQLSchemas can resolve to: any order, one descriptor per package
DescriptorSeqs ==
    UNION {{d \in [1..n -> Descriptors] :
                \A i, j \in 1..n : i # j => d[i].pkg # d[j].pkg} : n \in 0..MaxPkgs}

\* What introspectSchema can resolve to: the fields of the monolith and the
\* shape of its ProductAttributeFilterInput type
MonolithSchemas ==
    {m \in [keys : SUBSET BaseKeys,
            attrFilter : {"missing", "object", "input"},
            hasSku : BOOLEAN] :
        m.attrFilter = "missing" => ~m.hasSku}

\* ------------------------------------------------------------------------
\* Library and helper functions, as the code uses them

\* makeExecutableSchema({typeDefs, resolvers}) of collectLocalExtensions
LocalExecutableSchema(cfg) ==
    [k \in cfg.typeDefs |-> [tier |-> "LOCAL", fn |-> <<>>, resolver |-> "local"]]

\* prependPkgNameToFunctionDirectives(schemaDef, pkg): prefixes the name
\* argument of the @function directive with the package name and a separator
prependPkgNameToFunctionDirectives(schemaDef, pkg) ==
    [schemaDef EXCEPT !.name = <<pkg, Separator>> \o @]

\* Faulty variant of RewritePkg: every element gets the first package's name
RewritePkgFirst(defs, i) == defs[1].pkg

\* The package name the forEach callback passes for element i
RewritePkg(defs, i) == defs[i].pkg

\* Faulty variant of ForEachDone: the loop stops one element short
ForEachDoneEarly(defs, i) == i >= Len(defs)

\* The forEach over ioSchemaDefs has visited every element
ForEachDone(defs, i) == i > Len(defs)

\* The typeDefs given to makeExecutableSchema define no field twice
DistinctFields(defs) ==
    \A i, j \in 1..Len(defs) : i # j => defs[i].schemaDef.key # defs[j].schemaDef.key

\* makeExecutableSchema({typeDefs: [gql`type Query { ignoreMe } directive
\* @function`, ...ioSchemaDefs.map(io => io.schemaDef)]})
IoExecutableSchema(defs) ==
    [k \in {IgnoreMeKey} \cup {defs[i].schemaDef.key : i \in 1..Len(defs)} |->
        IF k = IgnoreMeKey
        THEN [tier |-> "REMOTE", fn |-> <<>>, resolver |-> "default"]
        ELSE LET i == CHOOSE i \in 1..Len(defs) : defs[i].schemaDef.key = k
             IN [tier |-> "REMOTE", fn |-> defs[i].schemaDef.name, resolver |-> "default"]]

\* FunctionDirectiveVisitor.visitSchemaDirectives(schema, {function: ...}):
\* every field carrying @function gets the function-invoking resolver
visitSchemaDirectives(schema) ==
    [k \in DOMAIN schema |->
        IF schema[k].fn # <<>> THEN [schema[k] EXCEPT !.resolver = "function"]
        ELSE schema[k]]

\* makeRemoteExecutableSchema({schema, link}): every field delegates to the link
makeRemoteExecutableSchema(raw) ==
    [k \in raw.keys |-> [tier |-> "MONOLITH", fn |-> <<>>, resolver |-> "delegate"]]

\* mergeSchemas({schemas}): schemas are last-in-wins
RECURSIVE mergeSchemas(_)
mergeSchemas(ss) ==
    IF ss = <<>> THEN EmptySchema
    ELSE LET rest == mergeSchemas(SubSeq(ss, 1, Len(ss) - 1))
             last == ss[Len(ss)]
         IN [k \in DOMAIN rest \cup DOMAIN last |->
                IF k \in DOMAIN last THEN last[k] ELSE rest[k]]

\* Faulty variant of SchemaList: fragments prepended instead of pushed
SchemaListReversed(frags) == [i \in 1..Len(frags) |-> frags[Len(frags) + 1 - i].schema]

\* The executable schemas held in main's schemas array, in push order
SchemaList(frags) == [i \in 1..Len(frags) |-> frags[i].schema]

\* Faulty variant of IoEnabled: remote extensions collected unconditionally
IoAlways == TRUE

\* readVar(name) used as a condition
IoEnabled == enableIO
LegacyConfigured == legacyURL # NoURL

\* Faulty variant of ServerDataSources: the local data sources are left out
NoDataSources(ext) == EmptyDataSources

\* The dataSources option main() gives the server
ServerDataSources(ext) == ext.dataSources

\* ------------------------------------------------------------------------
\* Initial state: the environment is read, no entry point has run yet

Init ==
    /\ entry \in {"main", "createMonolithProxySchema", "prepareForServer"}
    /\ enableIO \in BOOLEAN
    /\ legacyURL \in URLs \cup {NoURL}
    /\ monolithURL \in URLs
    /\ (entry # "main" => ~enableIO /\ legacyURL = NoURL)
    /\ pc = "start"
    /\ localExtensions = <<>>
    /\ schemas = <<>>
    /\ ioSchemaDefs = <<>>
    /\ rawDefs = <<>>
    /\ idx = 1
    /\ rewrites = <<>>
    /\ ioSchema = <<>>
    /\ visitLog = <<>>
    /\ monolithRaw = <<>>
    /\ server = <<>>
    /\ err = "none"
    /\ exitCode = -1
    /\ introspections = 0
    /\ discoveries = 0
    /\ proxyPc = "start"
    /\ introspected = <<>>
    /\ cause = "none"
    /\ proxyErr = [kind |-> "none", url |-> NoURL, cause |-> "none", missing |-> "none"]
    /\ proxyResult = <<>>
    /\ proxyIntrospections = 0
    /\ proxyChecks = <<>>
    /\ logs = <<>>
    /\ prepPc = "start"
    /\ frameworkBuilds = 0
    /\ gateway = 0
    /\ prepResult = <<>>

\* ------------------------------------------------------------------------
\* main(), src/src/index.ts

\* A step of main() rejects: the rejection propagates out of main()
Throw(step) ==
    /\ pc' = "threw"
    /\ err' = step

\* Faulty variant of RemoteDiscoverFail: the rejection is swallowed and
\* main() goes on without the remote fragment
RemoteDiscoverSwallowed ==
    /\ entry = "main" /\ pc = "local_done" /\ IoEnabled
    /\ discoveries' = discoveries + 1
    /\ pc' = "remote_done"
    /\ UNCHANGED <<envVars, proxyVars, prepVars, localExtensions, schemas, ioSchemaDefs,
                   rawDefs, idx, rewrites, ioSchema, visitLog, monolithRaw, server,
                   err, exitCode, introspections>>

\* const localExtensions = await collectLocalExtensions();
\* const schemas = [localExtensions.executableSchema];
MainCollectLocal ==
    /\ entry = "main" /\ pc = "start"
    /\ \E cfg \in LocalConfigs :
        /\ localExtensions' = <<[executableSchema |-> LocalExecutableSchema(cfg),
                                 dataSources |-> cfg.dataSources]>>
        /\ schemas' = <<[tier |-> "LOCAL",
                         schema |-> LocalExecutableSchema(cfg)]>>
    /\ pc' = "local_done"
    /\ UNCHANGED <<envVars, proxyVars, prepVars, ioSchemaDefs, rawDefs, idx, rewrites,
                   ioSchema, visitLog, monolithRaw, server, err, exitCode,
                   introspections, discoveries>>

\* getAllPackages or makeExecutableSchema rejects
MainCollectLocalFail ==
    /\ entry = "main" /\ pc = "start"
    /\ Throw("collectLocalExtensions")
    /\ UNCHANGED <<envVars, proxyVars, prepVars, localExtensions, schemas, ioSchemaDefs,
                   rawDefs, idx, rewrites, ioSchema, visitLog, monolithRaw, server,
                   exitCode, introspections, discoveries>>

\* if (readVar('ENABLE_IO_FUNCTIONS')) is false
MainSkipRemote ==
    /\ entry = "main" /\ pc = "local_done" /\ ~IoEnabled
    /\ pc' = "remote_done"
    /\ UNCHANGED <<envVars, proxyVars, prepVars, localExtensions, schemas, ioSchemaDefs,
                   rawDefs, idx, rewrites, ioSchema, visitLog, monolithRaw, server,
                   err, exitCode, introspections, discoveries>>

\* collectRemoteExtensions: const ioSchemaDefs = await getAllRemoteGQLSchemas(ioNamespace)
RemoteDiscover ==
    /\ entry = "main" /\ pc = "local_done" /\ IoEnabled
    /\ \E defs \in DescriptorSeqs :
        /\ ioSchemaDefs' = defs
        /\ rawDefs' = defs
        /\ rewrites' = [i \in 1..Len(defs) |-> 0]
    /\ idx' = 1
    /\ discoveries' = discoveries + 1
    /\ pc' = "rewrite"
    /\ UNCHANGED <<envVars, proxyVars, prepVars, localExtensions, schemas, ioSchema,
                   visitLog, monolithRaw, server, err, exitCode, introspections>>

\* getAllRemoteGQLSchemas rejects
RemoteDiscoverFail ==
    /\ entry = "main" /\ pc = "local_done" /\ IoEnabled
    /\ discoveries' = discoveries + 1
    /\ Throw("collectRemoteExtensions")
    /\ UNCHANGED <<envVars, proxyVars, prepVars, localExtensions, schemas, ioSchemaDefs,
                   rawDefs, idx, rewrites, ioSchema, visitLog, monolithRaw, server,
                   exitCode, introspections>>

\* ioSchemaDefs.forEach(({ schemaDef, pkg }) =>
\*     prependPkgNameToFunctionDirectives(schemaDef, pkg)), one element
RemoteRewrite ==
    /\ entry = "main" /\ pc = "rewrite" /\ ~ForEachDone(ioSchemaDefs, idx)
    /\ ioSchemaDefs' = [ioSchemaDefs EXCEPT ![idx].schemaDef =
            prependPkgNameToFunctionDirectives(@, RewritePkg(ioSchemaDefs, idx))]
    /\ rewrites' = [rewrites EXCEPT ![idx] = @ + 1]
    /\ idx' = idx + 1
    /\ UNCHANGED <<envVars, proxyVars, prepVars, pc, localExtensions, schemas, rawDefs,
                   ioSchema, visitLog, monolithRaw, server, err, exitCode,
                   introspections, discoveries>>

\* const ioSchema = makeExecutableSchema({typeDefs: [...]})
RemoteMakeSchema ==
    /\ entry = "main" /\ pc = "rewrite" /\ ForEachDone(ioSchemaDefs, idx)
    /\ DistinctFields(ioSchemaDefs)
    /\ ioSchema' = <<IoExecutableSchema(ioSchemaDefs)>>
    /\ pc' = "io_built"
    /\ UNCHANGED <<envVars, proxyVars, prepVars, localExtensions, schemas, ioSchemaDefs,
                   rawDefs, idx, rewrites, visitLog, monolithRaw, server, err, exitCode,
                   introspections, discoveries>>

\* makeExecutableSchema throws: a package's schema definition does not build
RemoteMakeSchemaFail ==
    /\ entry = "main" /\ pc = "rewrite" /\ ForEachDone(ioSchemaDefs, idx)
    /\ Throw("collectRemoteExtensions")
    /\ UNCHANGED <<envVars, proxyVars, prepVars, localExtensions, schemas, ioSchemaDefs,
                   rawDefs, idx, rewrites, ioSchema, visitLog, monolithRaw, server,
                   exitCode, introspections, discoveries>>

\* Faulty variant of RemoteVisit: the fragment is returned without visiting it
RemoteReturnUnvisited ==
    /\ entry = "main" /\ pc = "io_built"
    /\ schemas' = Append(schemas, [tier |-> "REMOTE", schema |-> ioSchema[1]])
    /\ pc' = "remote_done"
    /\ UNCHANGED <<envVars, proxyVars, prepVars, localExtensions, ioSchemaDefs, rawDefs,
                   idx, rewrites, ioSchema, visitLog, monolithRaw, server, err, exitCode,
                   introspections, discoveries>>

\* FunctionDirectiveVisitor.visitSchemaDirectives(ioSchema, {function: ...});
\* return ioSchema;  and in main(): schemas.push(...)
RemoteVisit ==
    /\ entry = "main" /\ pc = "io_built"
    /\ ioSchema' = <<visitSchemaDirectives(ioSchema[1])>>
    /\ visitLog' = Append(visitLog, [target |-> "REMOTE", merged |-> server # <<>>])
    /\ schemas' = Append(schemas, [tier |-> "REMOTE",
                                   schema |-> visitSchemaDirectives(ioSchema[1])])
    /\ pc' = "remote_done"
    /\ UNCHANGED <<envVars, proxyVars, prepVars, localExtensions, ioSchemaDefs, rawDefs,
                   idx, rewrites, monolithRaw, server, err, exitCode, introspections,
                   discoveries>>

\* if (readVar('LEGACY_GRAPHQL_URL')) is false
MainSkipMonolith ==
    /\ entry = "main" /\ pc = "remote_done" /\ ~LegacyConfigured
    /\ pc' = "monolith_done"
    /\ UNCHANGED <<envVars, proxyVars, prepVars, localExtensions, schemas, ioSchemaDefs,
                   rawDefs, idx, rewrites, ioSchema, visitLog, monolithRaw, server,
                   err, exitCode, introspections, discoveries>>

\* schemas.push(await getExecutableFallbackSchema()):
\* introspectSchema(link), then makeRemoteExecutableSchema({schema, link})
MainFallback ==
    /\ entry = "main" /\ pc = "remote_done" /\ LegacyConfigured
    /\ \E raw \in MonolithSchemas :
        /\ monolithRaw' = <<raw>>
        /\ schemas' = Append(schemas, [tier |-> "MONOLITH",
                                       schema |-> makeRemoteExecutableSchema(raw)])
    /\ introspections' = introspections + 1
    /\ pc' = "monolith_done"
    /\ UNCHANGED <<envVars, proxyVars, prepVars, localExtensions, ioSchemaDefs, rawDefs,
                   idx, rewrites, ioSchema, visitLog, server, err, exitCode,
                   discoveries>>

\* introspectSchema(link) rejects
MainFallbackFail ==
    /\ entry = "main" /\ pc = "remote_done" /\ LegacyConfigured
    /\ introspections' = introspections + 1
    /\ Throw("getExecutableFallbackSchema")
    /\ UNCHANGED <<envVars, proxyVars, prepVars, localExtensions, schemas, ioSchemaDefs,
                   rawDefs, idx, rewrites, ioSchema, visitLog, monolithRaw, server,
                   exitCode, discoveries>>

\* new ApolloServer({schema: mergeSchemas({schemas}), dataSources:
\*     localExtensions.dataSources, schemaDirectives: {function: ...}})
MainCreateServer ==
    /\ entry = "main" /\ pc = "monolith_done"
    /\ server' = <<[schema |-> mergeSchemas(SchemaList(schemas)),
                    dataSources |-> ServerDataSources(localExtensions[1]),
                    schemaDirectives |-> {"function"}]>>
    /\ pc' = "created"
    /\ UNCHANGED <<envVars, proxyVars, prepVars, localExtensions, schemas, ioSchemaDefs,
                   rawDefs, idx, rewrites, ioSchema, visitLog, monolithRaw, err,
                   exitCode, introspections, discoveries>>

\* mergeSchemas or the ApolloServer constructor throws
MainCreateServerFail ==
    /\ entry = "main" /\ pc = "monolith_done"
    /\ Throw("ApolloServer")
    /\ UNCHANGED <<envVars, proxyVars, prepVars, localExtensions, schemas, ioSchemaDefs,
                   rawDefs, idx, rewrites, ioSchema, visitLog, monolithRaw, server,
                   exitCode, introspections, discoveries>>

\* const serverInfo = await server.listen()
MainListen ==
    /\ entry = "main" /\ pc = "created"
    /\ pc' = "listening"
    /\ UNCHANGED <<envVars, proxyVars, prepVars, localExtensions, schemas, ioSchemaDefs,
                   rawDefs, idx, rewrites, ioSchema, visitLog, monolithRaw, server, err,
                   exitCode, introspections, discoveries>>

\* server.listen() rejects
MainListenFail ==
    /\ entry = "main" /\ pc = "created"
    /\ Throw("listen")
    /\ UNCHANGED <<envVars, proxyVars, prepVars, localExtensions, schemas, ioSchemaDefs,
                   rawDefs, idx, rewrites, ioSchema, visitLog, monolithRaw, server,
                   exitCode, introspections, discoveries>>

\* main().catch(err => { console.error(err); process.exit(1); })
MainCatch ==
    /\ entry = "main" /\ pc = "threw"
    /\ exitCode' = 1
    /\ pc' = "exited"
    /\ UNCHANGED <<envVars, proxyVars, prepVars, localExtensions, schemas, ioSchemaDefs,
                   rawDefs, idx, rewrites, ioSchema, visitLog, monolithRaw, server, err,
                   introspections, discoveries>>

\* ------------------------------------------------------------------------
\* createMonolithProxySchema(), src/src/framework/schema/monolith-proxy/index.ts

RequiredType == "ProductAttributeFilterInput"
RequiredField == "ProductAttributeFilterInput.sku"

\* Faulty variant of ProxyIntrospectFail: the rejection is rethrown as it
\* came, without the endpoint URL
ProxyIntrospectRethrow ==
    /\ entry = "createMonolithProxySchema" /\ proxyPc = "start"
    /\ \E c \in Causes :
        /\ cause' = c
        /\ proxyErr' = [kind |-> "Error", url |-> NoURL, cause |-> c, missing |-> "none"]
    /\ proxyIntrospections' = proxyIntrospections + 1
    /\ logs' = logs \o <<"info">>
    /\ proxyPc' = "threw"
    /\ UNCHANGED <<envVars, mainVars, prepVars, introspected, proxyResult, proxyChecks>>

\* logger.info(...); schema = await introspectSchema(executor) resolves
ProxyIntrospect ==
    /\ entry = "createMonolithProxySchema" /\ proxyPc = "start"
    /\ \E raw \in MonolithSchemas : introspected' = <<raw>>
    /\ proxyIntrospections' = proxyIntrospections + 1
    /\ logs' = Append(logs, "info")
    /\ proxyPc' = "introspected"
    /\ UNCHANGED <<envVars, mainVars, prepVars, cause, proxyErr, proxyResult, proxyChecks>>

\* introspectSchema rejects: catch (err) { logger.error(...); throw new Error(
\*     `Failed introspecting remote Magento schema at "${monolithURL}". ...`) }
ProxyIntrospectFail ==
    /\ entry = "createMonolithProxySchema" /\ proxyPc = "start"
    /\ \E c \in Causes : cause' = c
    /\ proxyErr' = [kind |-> "Error", url |-> monolithURL, cause |-> "none",
                    missing |-> "none"]
    /\ proxyIntrospections' = proxyIntrospections + 1
    /\ logs' = logs \o <<"info", "error">>
    /\ proxyPc' = "threw"
    /\ UNCHANGED <<envVars, mainVars, prepVars, introspected, proxyResult, proxyChecks>>

\* assert(isInputObjectType(schema.getType('ProductAttributeFilterInput')), ...)
ProxyCheckType ==
    /\ entry = "createMonolithProxySchema" /\ proxyPc = "introspected"
    /\ proxyChecks' = Append(proxyChecks, "type")
    /\ IF introspected[1].attrFilter = "input"
       THEN /\ proxyPc' = "type_ok"
            /\ UNCHANGED proxyErr
       ELSE /\ proxyPc' = "threw"
            /\ proxyErr' = [kind |-> "AssertionError", url |-> NoURL, cause |-> "none",
                            missing |-> RequiredType]
    /\ UNCHANGED <<envVars, mainVars, prepVars, introspected, cause, proxyResult,
                   proxyIntrospections, logs>>

\* assert(hasOwnProperty.call(attrFilterInput.getFields(), 'sku'), ...);
\* return { schema, executor };
ProxyCheckField ==
    /\ entry = "createMonolithProxySchema" /\ proxyPc = "type_ok"
    /\ proxyChecks' = Append(proxyChecks, "field")
    /\ IF introspected[1].hasSku
       THEN /\ proxyPc' = "returned"
            /\ proxyResult' = <<[schema |-> introspected[1], executor |-> monolithURL]>>
            /\ UNCHANGED proxyErr
       ELSE /\ proxyPc' = "threw"
            /\ proxyErr' = [kind |-> "AssertionError", url |-> NoURL, cause |-> "none",
                            missing |-> RequiredField]
            /\ UNCHANGED proxyResult
    /\ UNCHANGED <<envVars, mainVars, prepVars, introspected, cause,
                   proxyIntrospections, logs>>

\* ------------------------------------------------------------------------
\* prepareForServer(), src/src/framework/schema/monolith-proxy/index.ts

\* One call of buildFrameworkSchema(): builds the framework schema anew
\* (introspecting the monolith for it) and returns the new instance
buildFrameworkSchema(n) == n + 1

\* const gateway = await buildFrameworkSchema();
PrepBuildGateway ==
    /\ entry = "prepareForServer" /\ prepPc = "start"
    /\ frameworkBuilds' = buildFrameworkSchema(frameworkBuilds)
    /\ gateway' = buildFrameworkSchema(frameworkBuilds)
    /\ prepPc' = "gateway_built"
    /\ UNCHANGED <<envVars, mainVars, proxyVars, prepResult>>

\* return { schema: await buildFrameworkSchema(),
\*          context: contextBuilder({ schema: gateway }) };
PrepReturn ==
    /\ entry = "prepareForServer" /\ prepPc = "gateway_built"
    /\ frameworkBuilds' = buildFrameworkSchema(frameworkBuilds)
    /\ prepResult' = <<[schema |-> buildFrameworkSchema(frameworkBuilds),
                        contextSchema |-> gateway]>>
    /\ prepPc' = "returned"
    /\ UNCHANGED <<envVars, mainVars, proxyVars, gateway>>

\* Either buildFrameworkSchema() call rejects
PrepBuildFail ==
    /\ entry = "prepareForServer" /\ prepPc \in {"start", "gateway_built"}
    /\ frameworkBuilds' = buildFrameworkSchema(frameworkBuilds)
    /\ prepPc' = "threw"
    /\ UNCHANGED <<envVars, mainVars, proxyVars, gateway, prepResult>>

\* ------------------------------------------------------------------------
\* What each collector returns besides its executable schema:
\* collectLocalExtensions returns {executableSchema, dataSources};
\* collectRemoteExtensions and getExecutableFallbackSchema return a schema only
FragmentDataSources(f) ==
    IF f.tier = "LOCAL" THEN localExtensions[1].dataSources ELSE EmptyDataSources

\* ------------------------------------------------------------------------
\* Specification

Next ==
    \/ MainCollectLocal
    \/ MainCollectLocalFail
    \/ MainSkipRemote
    \/ RemoteDiscover
    \/ RemoteDiscoverFail
    \/ RemoteRewrite
    \/ RemoteMakeSchema
    \/ RemoteMakeSchemaFail
    \/ RemoteVisit
    \/ MainSkipMonolith
    \/ MainFallback
    \/ MainFallbackFail
    \/ MainCreateServer
    \/ MainCreateServerFail
    \/ MainListen
    \/ MainListenFail
    \/ MainCatch
    \/ ProxyIntrospect
    \/ ProxyIntrospectFail
    \/ ProxyCheckType
    \/ ProxyCheckField
    \/ PrepBuildGateway
    \/ PrepReturn
    \/ PrepBuildFail

Spec == Init /\ [][Next]_vars

\* ------------------------------------------------------------------------
\* Properties

AllKeys == BaseKeys \cup {IgnoreMeKey}

TierRank(t) == CASE t = "LOCAL" -> 1 [] t = "REMOTE" -> 2 [] t = "MONOLITH" -> 3

\* The fragments of main's schemas array that define field k
Definers(k) == {i \in 1..Len(schemas) : k \in DOMAIN schemas[i].schema}

\* The tiers main() is configured to compose, in precedence order
ExpectedTiers ==
    <<"LOCAL">> \o (IF enableIO THEN <<"REMOTE">> ELSE <<>>)
                \o (IF legacyURL # NoURL THEN <<"MONOLITH">> ELSE <<>>)

Tiers == [i \in 1..Len(schemas) |-> schemas[i].tier]

HasTier(t) == \E i \in 1..Len(schemas) : schemas[i].tier = t

\* C1: the fragment list handed to the merge is [local, remote-function if
\* enabled, monolith if configured], and every field defined by one or more
\* of these fragments is composed with the definition (shape and resolver)
\* of the highest-precedence fragment that defines it, whole.
C1_HighestPrecedenceWins ==
    /\ \A i, j \in 1..Len(schemas) :
            i < j => TierRank(schemas[i].tier) < TierRank(schemas[j].tier)
    /\ server # <<>> =>
        /\ Tiers = ExpectedTiers
        /\ DOMAIN server[1].schema = {k \in AllKeys : Definers(k) # {}}
        /\ \A k \in DOMAIN server[1].schema :
            LET top == CHOOSE i \in Definers(k) :
                            \A j \in Definers(k) :
                                TierRank(schemas[j].tier) <= TierRank(schemas[i].tier)
            IN server[1].schema[k] = schemas[top].schema[k]

\* A field defined by all three fragments is served from the monolith
C1_Witness ==
    /\ server # <<>>
    /\ Len(schemas) = 3
    /\ \E k \in AllKeys :
        /\ Definers(k) = {1, 2, 3}
        /\ server[1].schema[k].tier = "MONOLITH"

\* C2: with neither the remote-function nor the monolith fragment enabled,
\* the composed schema is exactly the local fragment's declarations.
C2_OnlyLocalIsIdentity ==
    (server # <<>> /\ ~enableIO /\ legacyURL = NoURL) =>
        /\ server[1].schema = localExtensions[1].executableSchema
        /\ \A k \in DOMAIN server[1].schema : server[1].schema[k].resolver = "local"

C2_Witness ==
    /\ server # <<>> /\ ~enableIO /\ legacyURL = NoURL
    /\ DOMAIN localExtensions[1].executableSchema = BaseKeys
    /\ DOMAIN server[1].schema = BaseKeys

\* C3: the server is created and listening only when every enabled startup
\* step has completed; once a step has failed the process never serves, and
\* it exits with status 1.
C3_FailFastStartup ==
    /\ pc \in {"created", "listening"} =>
        /\ err = "none" /\ exitCode = -1
        /\ server # <<>> /\ localExtensions # <<>>
        /\ Tiers = ExpectedTiers
        /\ (enableIO => discoveries = 1 /\ ioSchema # <<>>)
        /\ (legacyURL # NoURL => introspections = 1 /\ monolithRaw # <<>>)
        /\ server[1].schema = mergeSchemas(SchemaList(schemas))
    /\ err # "none" => pc \in {"threw", "exited"}
    /\ pc = "threw" => err # "none"
    /\ pc = "exited" => err # "none" /\ exitCode = 1
    /\ exitCode # -1 => pc = "exited"

\* The monolith step fails after the remote step succeeded: the process exits 1
C3_Witness ==
    /\ pc = "exited" /\ exitCode = 1
    /\ err = "getExecutableFallbackSchema"
    /\ HasTier("REMOTE")
    /\ server = <<>>

\* C4: every monolith fragment that is produced, by createMonolithProxySchema
\* or by main()'s getExecutableFallbackSchema, comes from an introspected
\* schema that has ProductAttributeFilterInput as an input-object type with
\* a sku field; otherwise the build fails naming the missing type or field,
\* the type being checked first.
C4_CompatibilityCheckedOnEveryPath ==
    /\ proxyResult # <<>> =>
        introspected[1].attrFilter = "input" /\ introspected[1].hasSku
    /\ (introspected # <<>> /\ proxyPc \in {"threw", "returned"}) =>
        /\ (introspected[1].attrFilter # "input" =>
                proxyPc = "threw" /\ proxyErr.missing = RequiredType
                /\ proxyChecks = <<"type">>)
        /\ (introspected[1].attrFilter = "input" /\ ~introspected[1].hasSku =>
                proxyPc = "threw" /\ proxyErr.missing = RequiredField
                /\ proxyChecks = <<"type", "field">>)
    /\ HasTier("MONOLITH") =>
        monolithRaw[1].attrFilter = "input" /\ monolithRaw[1].hasSku

\* C5 as stated: when introspection fails the builder throws an error that
\* carries the endpoint URL and the underlying cause, without retrying,
\* checking compatibility or returning a fragment.
C5_ErrorCarriesUrlAndCause ==
    cause # "none" =>
        /\ proxyPc = "threw"
        /\ proxyErr.url = monolithURL
        /\ proxyErr.cause = cause
        /\ proxyIntrospections = 1 /\ proxyChecks = <<>> /\ proxyResult = <<>>

\* C5 amended: when introspection fails the builder logs the failure and
\* throws at once a new Error whose message carries the endpoint URL; the
\* caught cause is discarded. Introspection ran once, no compatibility
\* check ran and no fragment is returned.
C5_ErrorCarriesUrlOnly ==
    cause # "none" =>
        /\ proxyPc = "threw"
        /\ proxyErr.kind = "Error"
        /\ proxyErr.url = monolithURL
        /\ proxyErr.cause = "none"
        /\ logs = <<"info", "error">>
        /\ proxyIntrospections = 1 /\ proxyChecks = <<>> /\ proxyResult = <<>>

C5_Witness ==
    /\ cause = "ECONNREFUSED"
    /\ proxyPc = "threw"
    /\ proxyErr.url = monolithURL

\* C6: in one startup the legacy API is introspected at most once, the
\* remote packages are discovered at most once, the framework schema is
\* built at most once, and the schema served is the instance the context
\* builder received.
C6_StartupWorkOnce ==
    /\ introspections <= 1
    /\ discoveries <= 1
    /\ frameworkBuilds <= 1
    /\ prepResult # <<>> => prepResult[1].schema = prepResult[1].contextSchema

\* C7 as stated: the function directive is bound only on the merged schema,
\* after composition, and at most once: no fragment is visited before the
\* merge and no fragment reaches the merge with a field already bound.
C7_BoundOnceOnMergedSchema ==
    /\ Len(visitLog) <= 1
    /\ \A i \in 1..Len(visitLog) :
            visitLog[i].merged /\ visitLog[i].target = "MERGED"
    /\ server = <<>> =>
        \A i \in 1..Len(schemas) : \A k \in DOMAIN schemas[i].schema :
            schemas[i].schema[k].resolver # "function"

\* C7 amended: the directive visitor runs at most once per startup, on the
\* remote-function fragment alone and before the merge; it has run exactly
\* when that fragment is in the list. In every fragment and in the merged
\* schema a field has the function resolver exactly when it is a
\* remote-function field carrying the directive. main() visits nothing
\* itself: it hands the visitor to the server with the merged schema.
C7_BoundOnceOnRemoteFragment ==
    /\ Len(visitLog) <= 1
    /\ \A i \in 1..Len(visitLog) :
            ~visitLog[i].merged /\ visitLog[i].target = "REMOTE"
    /\ HasTier("REMOTE") <=> Len(visitLog) = 1
    /\ \A i \in 1..Len(schemas) : \A k \in DOMAIN schemas[i].schema :
            schemas[i].schema[k].resolver = "function"
                <=> (schemas[i].tier = "REMOTE" /\ schemas[i].schema[k].fn # <<>>)
    /\ server # <<>> =>
        /\ server[1].schemaDirectives = {"function"}
        /\ \A k \in DOMAIN server[1].schema :
                server[1].schema[k].resolver = "function"
                    <=> (server[1].schema[k].tier = "REMOTE"
                            /\ server[1].schema[k].fn # <<>>)

C7_Witness ==
    /\ server # <<>>
    /\ Len(visitLog) = 1
    /\ \E k \in DOMAIN server[1].schema : server[1].schema[k].resolver = "function"

\* C8: no descriptor is rewritten twice, and once the remote fragment's
\* executable schema exists (hence before the visitor runs and before the
\* fragment is pushed) every discovered descriptor has been rewritten
\* exactly once: its name carries exactly one package prefix.
C8_RewrittenOnceBeforeWiring ==
    /\ \A i \in 1..Len(rewrites) : rewrites[i] <= 1
    /\ Len(rewrites) = Len(rawDefs) /\ Len(ioSchemaDefs) = Len(rawDefs)
    /\ (ioSchema # <<>> \/ visitLog # <<>> \/ HasTier("REMOTE")) =>
        /\ \A i \in 1..Len(rawDefs) :
            /\ rewrites[i] = 1
            /\ Len(ioSchemaDefs[i].schemaDef.name) = Len(rawDefs[i].schemaDef.name) + 2
        /\ \A k \in DOMAIN ioSchema[1] :
            k # IgnoreMeKey => Len(ioSchema[1][k].fn) = 3

C8_Witness ==
    /\ ioSchema # <<>>
    /\ visitLog = <<>>
    /\ Len(rawDefs) >= 2
    /\ \A i \in 1..Len(rawDefs) : rewrites[i] = 1

\* The namespace-qualified reference of a package's function
Qualified(pkg, name) == <<pkg, Separator>> \o name

\* C9: whatever packages are discovered and in whatever order, a rewritten
\* descriptor's function name is its own package name, the separator and
\* its raw name, and the composed field dispatches to that reference.
C9_QualifiedWithOwnPackage ==
    /\ \A i \in 1..Len(ioSchemaDefs) :
        /\ ioSchemaDefs[i].pkg = rawDefs[i].pkg
        /\ ioSchemaDefs[i].schemaDef.name =
                IF rewrites[i] = 0 THEN rawDefs[i].schemaDef.name
                ELSE Qualified(rawDefs[i].pkg, rawDefs[i].schemaDef.name)
    /\ ioSchema # <<>> =>
        \A i \in 1..Len(rawDefs) :
            ioSchema[1][rawDefs[i].schemaDef.key].fn =
                Qualified(rawDefs[i].pkg, rawDefs[i].schemaDef.name)

\* catalog's getPrice, processed after another package, is catalog/getPrice
C9_Witness ==
    /\ ioSchema # <<>>
    /\ Len(rawDefs) >= 2
    /\ rawDefs[2].pkg = "catalog"
    /\ rawDefs[2].schemaDef.name = <<"getPrice">>
    /\ ioSchemaDefs[2].schemaDef.name = <<"catalog", "/", "getPrice">>

\* The mapping union, last wins, of the data sources of a list of fragments
RECURSIVE UnionDataSources(_)
UnionDataSources(frags) ==
    IF frags = <<>> THEN EmptyDataSources
    ELSE LET rest == UnionDataSources(SubSeq(frags, 1, Len(frags) - 1))
             last == FragmentDataSources(frags[Len(frags)])
         IN [n \in DOMAIN rest \cup DOMAIN last |->
                IF n \in DOMAIN last THEN last[n] ELSE rest[n]]

====
